---- MODULE Spec2Model ----
(***************************************************************************)
(* Library Manager (Simple_app.py): the LibraryDB store over SQLite and    *)
(* the LibraryApp Tk presentation, as a state machine.                     *)
(*                                                                         *)
(* Text is a sequence of one-character strings, so that strip(), lower(),  *)
(* int(), str() and SQL LIKE are computed character by character.          *)
(* A nullable value (Python None / SQL NULL) is <<>>, a present value v is  *)
(* <<v>>.                                                                  *)
(***************************************************************************)
EXTENDS Integers, Sequences, FiniteSets

VARIABLES
    users,          \* users table: username -> password_hash
    books,          \* books table: set of rows
    seq,            \* sqlite_sequence entry of books (AUTOINCREMENT high-water mark)
    clock,          \* CURRENT_TIMESTAMP of the latest insert, in whole seconds
                    \* counted from the first insert
    username_var,   \* login form
    password_var,
    login_frame,    \* TRUE while the login frame widget exists
    form_vars,      \* self.form_vars of the most recently built dashboard
    search_var,     \* self.search_var
    selected_id,    \* the selected_id attribute: <<>> when absent, <<id>> when set
    trees,          \* every Treeview built so far; the last one is self.tree
    stats,          \* the statistics labels of every dashboard built so far
    heading,        \* per column, the reverse flag its heading command passes next
    last,           \* history: the latest operation, its arguments and outcome
    deleted         \* history: <<id, seq at the call>> of every delete_book call

vars == <<users, books, seq, clock, username_var, password_var, login_frame,
          form_vars, search_var, selected_id, trees, stats, heading, last, deleted>>

storeVars == <<users, books, seq, clock>>
uiVars == <<username_var, password_var, login_frame, form_vars, search_var,
            selected_id, trees, stats, heading>>

(***************************************************************************)
(* Bounds                                                                  *)
(***************************************************************************)
\* number of rows ever inserted into books
MaxId == 2
\* number of dashboards ever built by _build_main_ui
MaxBuilds == 2

(***************************************************************************)
(* Text                                                                    *)
(***************************************************************************)
None == <<>>
Some(v) == <<v>>

Upper == <<"A","B","C","D","E","F","G","H","I","J","K","L","M",
           "N","O","P","Q","R","S","T","U","V","W","X","Y","Z">>
Lowr == <<"a","b","c","d","e","f","g","h","i","j","k","l","m",
          "n","o","p","q","r","s","t","u","v","w","x","y","z">>
Digits == <<"0","1","2","3","4","5","6","7","8","9">>

\* the characters of the model, in code-point order
Ascii == <<" ", "%", "+", "-">> \o Digits \o <<":">> \o Upper \o <<"_">> \o Lowr

IndexIn(c, s) == CHOOSE i \in 1..Len(s) : s[i] = c

Ord(c) == IndexIn(c, Ascii)

\* str.lower() of one character, and of a text
LowerChar(c) == IF \E i \in 1..26 : Upper[i] = c THEN Lowr[IndexIn(c, Upper)] ELSE c

lower(s) == [i \in 1..Len(s) |-> LowerChar(s[i])]

IsSpace(c) == c = " "

RECURSIVE lstrip(_)
lstrip(s) == IF s # <<>> /\ IsSpace(Head(s)) THEN lstrip(Tail(s)) ELSE s

RECURSIVE rstrip(_)
rstrip(s) ==
    IF s # <<>> /\ IsSpace(s[Len(s)]) THEN rstrip(SubSeq(s, 1, Len(s) - 1)) ELSE s

\* str.strip()
strip(s) == rstrip(lstrip(s))

IsDigit(c) == \E i \in 1..10 : Digits[i] = c

DigitVal(c) == IndexIn(c, Digits) - 1

AllDigits(s) == s # <<>> /\ \A i \in 1..Len(s) : IsDigit(s[i])

RECURSIVE DigitsVal(_)
DigitsVal(s) ==
    IF s = <<>> THEN 0 ELSE 10 * DigitsVal(SubSeq(s, 1, Len(s) - 1)) + DigitVal(s[Len(s)])

\* int(text) succeeds: optional surrounding blanks, optional sign, then digits
IsIntText(s) ==
    LET t == strip(s)
    IN  /\ t # <<>>
        /\ IF Head(t) \in {"+", "-"} THEN AllDigits(Tail(t)) ELSE AllDigits(t)

\* int(text), where it succeeds
IntOf(s) ==
    LET t == strip(s)
    IN  IF Head(t) = "-" THEN 0 - DigitsVal(Tail(t))
        ELSE IF Head(t) = "+" THEN DigitsVal(Tail(t))
        ELSE DigitsVal(t)

RECURSIVE NatToText(_)
NatToText(n) ==
    IF n < 10 THEN <<Digits[n + 1]>> ELSE NatToText(n \div 10) \o <<Digits[(n % 10) + 1]>>

\* str(n) of an integer
IntToText(n) == IF n < 0 THEN <<"-">> \o NatToText(0 - n) ELSE NatToText(n)

NoneText == <<"N", "o", "n", "e">>

\* lexicographic order of texts by code point
RECURSIVE TextLess(_, _)
TextLess(a, b) ==
    IF b = <<>> THEN FALSE
    ELSE IF a = <<>> THEN TRUE
    ELSE IF Head(a) = Head(b) THEN TextLess(Tail(a), Tail(b))
    ELSE Ord(Head(a)) < Ord(Head(b))

\* Python substring test: needle in hay
Contains(needle, hay) ==
    \E i \in 0..(Len(hay) - Len(needle)) : SubSeq(hay, i + 1, i + Len(needle)) = needle

(***************************************************************************)
(* Store: LibraryDB                                                        *)
(***************************************************************************)
\* hashlib.sha256(raw).hexdigest(): a digest distinct from the text, one per text
hash_password(raw) == <<"sha256", raw>>

AdminName == <<"a", "d", "m", "i", "n">>

\* the users table after _ensure_db on a fresh file
SeedUsers == [u \in {AdminName} |-> hash_password(AdminName)]

\* SELECT 1 FROM users WHERE username=?
user_exists(us, username) == username \in DOMAIN us

\* verify_user that forgets to compare the hash
verify_user_any_password(us, username, password) == user_exists(us, username)

verify_user(us, username, password) ==
    IF ~user_exists(us, username) THEN FALSE
    ELSE us[username] = hash_password(password)

\* a plain INTEGER PRIMARY KEY, without AUTOINCREMENT: one more than the
\* largest id present
NextId_rowid(bks, sq) ==
    LET present == {b.id : b \in bks}
    IN  (IF present = {} THEN 0 ELSE CHOOSE m \in present : \A i \in present : i <= m) + 1

\* books.id INTEGER PRIMARY KEY AUTOINCREMENT: one more than the largest id
\* ever used, which sqlite_sequence remembers across deletes
NextId(bks, sq) ==
    LET present == {b.id : b \in bks}
        top == IF present = {} THEN 0 ELSE CHOOSE m \in present : \A i \in present : i <= m
    IN  (IF top > sq THEN top ELSE sq) + 1

\* an INSERT that leaves out the year column
add_book_no_year(bks, sq, t, payload) ==
    bks \cup {[id |-> NextId(bks, sq),
               title |-> payload.title,
               author |-> payload.author,
               category |-> payload.category,
               year |-> None,
               copies |-> payload.copies,
               available |-> payload.available,
               created_at |-> t]}

\* INSERT INTO books (...) VALUES (...), at second t
add_book(bks, sq, t, payload) ==
    bks \cup {[id |-> NextId(bks, sq),
               title |-> payload.title,
               author |-> payload.author,
               category |-> payload.category,
               year |-> payload.year,
               copies |-> payload.copies,
               available |-> payload.available,
               created_at |-> t]}

\* an UPDATE without its WHERE clause
update_book_all(bks, book_id, payload) ==
    {[b EXCEPT !.title = payload.title,
               !.author = payload.author,
               !.category = payload.category,
               !.year = payload.year,
               !.copies = payload.copies,
               !.available = payload.available] : b \in bks}

\* UPDATE books SET ... WHERE id=:id
update_book(bks, book_id, payload) ==
    {IF b.id = book_id
        THEN [b EXCEPT !.title = payload.title,
                       !.author = payload.author,
                       !.category = payload.category,
                       !.year = payload.year,
                       !.copies = payload.copies,
                       !.available = payload.available]
        ELSE b : b \in bks}

\* DELETE FROM books WHERE id=?
delete_book(bks, book_id) == {b \in bks : b.id # book_id}

\* SQLite LIKE: % is any run of characters, _ is any one character, letters
\* compare without regard to ASCII case; there is no ESCAPE clause
RECURSIVE Like(_, _)
Like(pat, s) ==
    IF pat = <<>> THEN s = <<>>
    ELSE IF Head(pat) = "%"
        THEN \E k \in 0..Len(s) : Like(Tail(pat), SubSeq(s, k + 1, Len(s)))
    ELSE IF s = <<>> THEN FALSE
    ELSE IF Head(pat) = "_" THEN Like(Tail(pat), Tail(s))
    ELSE LowerChar(Head(pat)) = LowerChar(Head(s)) /\ Like(Tail(pat), Tail(s))

\* lower(column) LIKE ?   (NULL LIKE ? is NULL, which WHERE treats as false)
ColumnLike(col, like) == col # None /\ Like(like, lower(col[1]))

\* the WHERE clause of fetch_books
Matches(b, search) ==
    IF search = <<>> THEN TRUE
    ELSE LET like == <<"%">> \o lower(search) \o <<"%">>
         IN  \/ Like(like, lower(b.title))
             \/ Like(like, lower(b.author))
             \/ ColumnLike(b.category, like)

\* ORDER BY created_at DESC; rows of the same second stay in rowid order
RowBefore(a, b) ==
    \/ a.created_at > b.created_at
    \/ a.created_at = b.created_at /\ a.id < b.id

RECURSIVE OrderRows(_)
OrderRows(rows) ==
    IF rows = {} THEN <<>>
    ELSE LET first == CHOOSE r \in rows : \A o \in rows \ {r} : RowBefore(r, o)
         IN  <<first>> \o OrderRows(rows \ {first})

fetch_books(bks, search) == OrderRows({b \in bks : Matches(b, search)})

RECURSIVE SumOf(_, _)
SumOf(rows, col) ==
    IF rows = {} THEN 0
    ELSE LET r == CHOOSE x \in rows : TRUE
         IN  (IF col = "available" THEN r.available ELSE r.copies) + SumOf(rows \ {r}, col)

\* SQL SUM(col): NULL over no rows
SqlSum(rows, col) == IF rows = {} THEN None ELSE Some(SumOf(rows, col))

\* Python "x or 0" of a query result
OrZero(v) == IF v = None \/ v = Some(0) THEN 0 ELSE v[1]

\* a summary that counts as issued every row with a copy out
summary_issued_partly(bks) ==
    [total |-> OrZero(Some(Cardinality(bks))),
     available |-> OrZero(SqlSum(bks, "available")),
     copies |-> OrZero(SqlSum(bks, "copies")),
     issued |-> OrZero(Some(Cardinality({b \in bks : b.available < b.copies})))]

summary(bks) ==
    [total |-> OrZero(Some(Cardinality(bks))),
     available |-> OrZero(SqlSum(bks, "available")),
     copies |-> OrZero(SqlSum(bks, "copies")),
     issued |-> OrZero(Some(Cardinality({b \in bks : b.available = 0})))]

(***************************************************************************)
(* Presentation: LibraryApp                                                *)
(***************************************************************************)
Columns == <<"id", "title", "author", "category", "year", "copies", "available", "created">>

\* the text Tk shows for a created_at timestamp: its seconds field
TimeText(t) == <<":">> \o (IF t < 10 THEN <<"0">> ELSE <<>>) \o NatToText(t)

\* str() of a nullable column value
OptText(v, isInt) ==
    IF v = None THEN NoneText ELSE IF isInt THEN IntToText(v[1]) ELSE v[1]

\* tree.insert("", "end", values=row): every cell becomes its text
TreeRow(b) ==
    [id |-> IntToText(b.id),
     title |-> b.title,
     author |-> b.author,
     category |-> OptText(b.category, FALSE),
     year |-> OptText(b.year, TRUE),
     copies |-> IntToText(b.copies),
     available |-> IntToText(b.available),
     created |-> TimeText(b.created_at)]

TreeRows(rows) == [i \in 1..Len(rows) |-> TreeRow(rows[i])]

\* the texts of the three statistics labels
StatLabels(s) ==
    [total |-> IntToText(s.total),
     available |-> IntToText(s.available),
     issued |-> IntToText(s.issued)]

\* the form as _build_form and clear_form leave it
BlankForm ==
    [Title |-> <<>>, Author |-> <<>>, Category |-> <<>>, Year |-> <<>>,
     Copies |-> <<>>, Available |-> <<"1">>]

\* text or "0"
OrText(s, dflt) == IF s = <<>> THEN dflt ELSE s

Max(a, b) == IF a > b THEN a ELSE b
Min(a, b) == IF a < b THEN a ELSE b

\* _form_payload that requires the title only
form_error_title_only(f) ==
    LET year == strip(f.Year)
        copies == OrText(strip(f.Copies), <<"0">>)
        available == OrText(strip(f.Available), <<"0">>)
    IN  IF strip(f.Title) = <<>> THEN "Missing data"
        ELSE IF \/ (year # <<>> /\ ~IsIntText(year))
                \/ ~IsIntText(copies)
                \/ ~IsIntText(available) THEN "Invalid number"
        ELSE ""

\* the dialog _form_payload raises, "" when it returns a payload
form_error(f) ==
    LET year == strip(f.Year)
        copies == OrText(strip(f.Copies), <<"0">>)
        available == OrText(strip(f.Available), <<"0">>)
    IN  IF strip(f.Title) = <<>> \/ strip(f.Author) = <<>> THEN "Missing data"
        ELSE IF \/ (year # <<>> /\ ~IsIntText(year))
                \/ ~IsIntText(copies)
                \/ ~IsIntText(available) THEN "Invalid number"
        ELSE ""

\* _form_payload that does not cap available at copies
form_payload_uncapped(f) ==
    LET year == strip(f.Year)
        copies == OrText(strip(f.Copies), <<"0">>)
        available == OrText(strip(f.Available), <<"0">>)
        copies_val == Max(0, IntOf(copies))
        available_val == Max(0, IntOf(available))
    IN  [title |-> strip(f.Title),
         author |-> strip(f.Author),
         category |-> Some(strip(f.Category)),
         year |-> IF year # <<>> THEN Some(IntOf(year)) ELSE None,
         copies |-> copies_val,
         available |-> available_val]

\* the payload _form_payload returns when it raises no dialog
form_payload(f) ==
    LET year == strip(f.Year)
        copies == OrText(strip(f.Copies), <<"0">>)
        available == OrText(strip(f.Available), <<"0">>)
        copies_val == Max(0, IntOf(copies))
        available_val == Max(0, Min(IntOf(available), copies_val))
    IN  [title |-> strip(f.Title),
         author |-> strip(f.Author),
         category |-> Some(strip(f.Category)),
         year |-> IF year # <<>> THEN Some(IntOf(year)) ELSE None,
         copies |-> copies_val,
         available |-> available_val]

\* what refresh_table leaves in self.tree
refreshed(bks, search) == TreeRows(fetch_books(bks, strip(search)))

\* replace the last element of a sequence
SetLast(s, v) == [s EXCEPT ![Len(s)] = v]

\* list.sort(key=..., reverse=...) on the cells of one column: stable, and
\* with reverse the equal cells keep their order too
KeyLess(a, b, numeric) ==
    IF numeric THEN IntOf(a) < IntOf(b) ELSE TextLess(lower(a), lower(b))

KeyBefore(a, b, numeric, reverse) ==
    IF reverse THEN KeyLess(b, a, numeric) ELSE KeyLess(a, b, numeric)

RECURSIVE SortRows(_, _, _, _)
SortRows(rows, col, numeric, reverse) ==
    IF rows = <<>> THEN <<>>
    ELSE LET n == Len(rows)
             done == SortRows(SubSeq(rows, 1, n - 1), col, numeric, reverse)
             x == rows[n]
             k == Cardinality({i \in 1..Len(done) :
                                  ~KeyBefore(x[col], done[i][col], numeric, reverse)})
         IN  SubSeq(done, 1, k) \o <<x>> \o SubSeq(done, k + 1, Len(done))

\* the order sort_by_column gives the rows of the tree
sorted_by(rows, col, reverse) ==
    LET numeric == \A i \in 1..Len(rows) : IsIntText(rows[i][col])
    IN  SortRows(rows, col, numeric, reverse)

(***************************************************************************)
(* Inputs                                                                  *)
(***************************************************************************)
Form(t, a, c, y, cp, av) ==
    [Title |-> t, Author |-> a, Category |-> c, Year |-> y, Copies |-> cp, Available |-> av]

\* what the user types into the book form
FormInputs ==
    {Form(<<" ", "D", "u", " ">>, <<"H">>, <<" ", "x">>, <<"7">>, <<"2">>, <<"3">>),
     Form(<<"D", "u">>, <<"H">>, <<>>, <<>>, <<>>, <<"-", "1">>),
     Form(<<"D", "u">>, <<"H">>, <<>>, <<>>, <<"-", "1">>, <<"1">>),
     Form(<<" ">>, <<"H">>, <<>>, <<>>, <<"2">>, <<"1">>),
     Form(<<"D", "u">>, <<>>, <<>>, <<>>, <<"2">>, <<"1">>),
     Form(<<"D", "u">>, <<"H">>, <<>>, <<"y">>, <<"2">>, <<"1">>),
     Form(<<"D", "u">>, <<"H">>, <<>>, <<>>, <<"y">>, <<"1">>),
     Form(<<"D", "u">>, <<"H">>, <<>>, <<>>, <<"2">>, <<"1", "y">>)}

\* what the user types into the login form
Usernames == {<<" ">>, <<" ">> \o AdminName \o <<" ">>, <<"b", "o", "b">>}
Passwords == {AdminName, <<"x">>}

\* what the user types into the search box
SearchTexts == {<<>>, <<" ", "x">>}

\* the headings the user clicks
SortColumns == {"year"}

\* the arguments of direct calls of the store
Payload(t, a, c, y, cp, av) ==
    [title |-> t, author |-> a, category |-> c, year |-> y, copies |-> cp, available |-> av]

Payloads ==
    {Payload(<<"D", "u">>, <<"H">>, Some(<<"x">>), Some(7), 2, 2),
     Payload(<<"a", "b">>, <<"D", "u">>, None, None, 2, 0),
     Payload(<<"b">>, <<"H">>, Some(<<"d", "U", "n">>), None, 0, 0)}

Ids == 1..MaxId

\* CURRENT_TIMESTAMP counts whole seconds: an insert falls in the second of the
\* insert before it or in a later one; the first insert sets the origin
Elapsed(sq) == IF sq = 0 THEN {0} ELSE {0, 1}

SearchTerms ==
    {<<>>, <<"d", "u">>, <<"D", "U">>, <<"U">>, <<"z">>, <<"x">>, <<"_">>, <<"%">>, <<"d", "_">>}

(***************************************************************************)
(* State machine                                                           *)
(***************************************************************************)
Event(op, outcome) == [op |-> op, outcome |-> outcome, id |-> 0, payload |-> None]

Call(op, book_id, payload) == [op |-> op, outcome |-> "", id |-> book_id, payload |-> payload]

NoHeading == [c \in SortColumns |-> FALSE]

\* LibraryDB.__init__ on a fresh file, then LibraryApp.__init__ up to _build_login
Init ==
    /\ users = SeedUsers
    /\ books = {}
    /\ seq = 0
    /\ clock = 0
    /\ username_var = <<>>
    /\ password_var = <<>>
    /\ login_frame = TRUE
    /\ form_vars = BlankForm
    /\ search_var = <<>>
    /\ selected_id = None
    /\ trees = <<>>
    /\ stats = <<>>
    /\ heading = <<>>
    /\ last = Event("init", "")
    /\ deleted = {}

LoggedOut == login_frame = TRUE
LoggedIn == login_frame = FALSE

\* a dashboard exists, so its buttons, entries and table can be used
Dashboard == trees # <<>>

\* typing into the entries of the login frame
type_login ==
    /\ login_frame
    /\ \E u \in Usernames \cup {username_var}, p \in Passwords \cup {password_var} :
          /\ <<u, p>> # <<username_var, password_var>>
          /\ username_var' = u
          /\ password_var' = p
    /\ last' = Event("type_login", "")
    /\ UNCHANGED <<storeVars, login_frame, form_vars, search_var, selected_id,
                   trees, stats, heading, deleted>>

\* handle_login, with _build_main_ui where the credentials verify
handle_login ==
    LET username == strip(username_var)
        password == password_var
    IN  IF username = <<>> \/ password = <<>>
        THEN /\ last' = Event("handle_login", "Missing fields")
             /\ UNCHANGED <<storeVars, uiVars, deleted>>
        ELSE IF ~verify_user(users, username, password)
        THEN /\ last' = Event("handle_login", "Login failed")
             /\ UNCHANGED <<storeVars, uiVars, deleted>>
        ELSE /\ Len(trees) < MaxBuilds
             /\ login_frame' = FALSE
             /\ form_vars' = BlankForm
             /\ search_var' = <<>>
             /\ heading' = Append(heading, NoHeading)
             /\ trees' = Append(trees, refreshed(books, <<>>))
             /\ stats' = Append(stats, StatLabels(summary(books)))
             /\ last' = Event("handle_login", "ok")
             /\ UNCHANGED <<storeVars, username_var, password_var, selected_id, deleted>>

\* the Login button of the login frame
login_button == login_frame /\ handle_login

\* the <Return> binding of the window, installed by _build_login
return_key == handle_login

\* typing into the entries of the book form
type_form ==
    /\ Dashboard
    /\ \E f \in FormInputs : form_vars' = f /\ f # form_vars
    /\ last' = Event("type_form", "")
    /\ UNCHANGED <<storeVars, username_var, password_var, login_frame, search_var,
                   selected_id, trees, stats, heading, deleted>>

\* a key released in the search box: refresh_table
search_key ==
    /\ Dashboard
    /\ \E s \in SearchTexts :
          /\ search_var' = s
          /\ trees' = SetLast(trees, refreshed(books, s))
    /\ stats' = SetLast(stats, StatLabels(summary(books)))
    /\ last' = Event("refresh_table", "")
    /\ UNCHANGED <<storeVars, username_var, password_var, login_frame, form_vars,
                   selected_id, heading, deleted>>

\* a row of self.tree is selected: on_select (with no focused row it returns
\* at once, which changes nothing)
on_select ==
    /\ Dashboard
    /\ \E i \in 1..Len(trees[Len(trees)]) :
          LET data == trees[Len(trees)][i]
          IN  /\ selected_id' = Some(IntOf(data.id))
              /\ form_vars' = Form(data.title, data.author, data.category,
                                   data.year, data.copies, data.available)
    /\ last' = Event("on_select", "")
    /\ UNCHANGED <<storeVars, username_var, password_var, login_frame, search_var,
                   trees, stats, heading, deleted>>

\* the Add button
add_book_click ==
    /\ Dashboard
    /\ IF form_error(form_vars) # ""
       THEN /\ last' = Event("add_book", form_error(form_vars))
            /\ UNCHANGED <<storeVars, uiVars, deleted>>
       ELSE /\ seq < MaxId
            /\ \E dt \in Elapsed(seq) :
                  /\ clock' = clock + dt
                  /\ books' = add_book(books, seq, clock', form_payload(form_vars))
            /\ seq' = NextId(books, seq)
            /\ form_vars' = BlankForm
            /\ selected_id' = None
            /\ trees' = SetLast(trees, refreshed(books', search_var))
            /\ stats' = SetLast(stats, StatLabels(summary(books')))
            /\ last' = Event("add_book", "Added")
            /\ UNCHANGED <<users, username_var, password_var, login_frame, search_var,
                           heading, deleted>>

\* the Update button
update_selected ==
    /\ Dashboard
    /\ IF selected_id = None
       THEN /\ last' = Event("update_selected", "Select a row")
            /\ UNCHANGED <<storeVars, uiVars, deleted>>
       ELSE IF form_error(form_vars) # ""
       THEN /\ last' = Event("update_selected", form_error(form_vars))
            /\ UNCHANGED <<storeVars, uiVars, deleted>>
       ELSE /\ books' = update_book(books, selected_id[1], form_payload(form_vars))
            /\ trees' = SetLast(trees, refreshed(books', search_var))
            /\ stats' = SetLast(stats, StatLabels(summary(books')))
            /\ last' = Event("update_selected", "Updated")
            /\ UNCHANGED <<users, seq, clock, username_var, password_var, login_frame,
                           form_vars, search_var, selected_id, heading, deleted>>

\* the Delete button
delete_selected ==
    /\ Dashboard
    /\ IF selected_id = None
       THEN /\ last' = Event("delete_selected", "Select a row")
            /\ UNCHANGED <<storeVars, uiVars, deleted>>
       ELSE \E yes \in BOOLEAN :
              IF ~yes
              THEN /\ last' = Event("delete_selected", "Declined")
                   /\ UNCHANGED <<storeVars, uiVars, deleted>>
              ELSE /\ books' = delete_book(books, selected_id[1])
                   /\ deleted' = deleted \cup {<<selected_id[1], seq>>}
                   /\ form_vars' = BlankForm
                   /\ selected_id' = None
                   /\ trees' = SetLast(trees, refreshed(books', search_var))
                   /\ stats' = SetLast(stats, StatLabels(summary(books')))
                   /\ last' = Event("delete_selected", "Deleted")
                   /\ UNCHANGED <<users, seq, clock, username_var, password_var,
                                  login_frame, search_var, heading>>

\* the Clear button
clear_form ==
    /\ Dashboard
    /\ form_vars' = BlankForm
    /\ selected_id' = None
    /\ last' = Event("clear_form", "")
    /\ UNCHANGED <<storeVars, username_var, password_var, login_frame, search_var,
                   trees, stats, heading, deleted>>

\* a heading of any table built so far is clicked: its command sorts self.tree
\* and re-arms the heading of self.tree
sort_by_column ==
    /\ Dashboard
    /\ \E d \in 1..Len(heading), col \in SortColumns :
          LET reverse == heading[d][col]
          IN  /\ trees' = SetLast(trees, sorted_by(trees[Len(trees)], col, reverse))
              /\ heading' = SetLast(heading, [heading[Len(heading)] EXCEPT ![col] = ~reverse])
    /\ last' = Event("sort_by_column", "")
    /\ UNCHANGED <<storeVars, username_var, password_var, login_frame, form_vars,
                   search_var, selected_id, stats, deleted>>

Next ==
    \/ type_login
    \/ login_button
    \/ return_key
    \/ type_form
    \/ search_key
    \/ on_select
    \/ add_book_click
    \/ update_selected
    \/ delete_selected
    \/ clear_form
    \/ sort_by_column

Spec == Init /\ [][Next]_vars

(***************************************************************************)
(* The store called directly, as a caller of LibraryDB's methods would      *)
(***************************************************************************)
call_add_book ==
    /\ seq < MaxId
    /\ \E payload \in Payloads, dt \in Elapsed(seq) :
          /\ clock' = clock + dt
          /\ books' = add_book(books, seq, clock', payload)
          /\ last' = Call("db.add_book", 0, payload)
    /\ seq' = NextId(books, seq)
    /\ UNCHANGED <<users, uiVars, deleted>>

call_update_book ==
    /\ \E book_id \in Ids, payload \in Payloads :
          /\ books' = update_book(books, book_id, payload)
          /\ last' = Call("db.update_book", book_id, payload)
    /\ UNCHANGED <<users, seq, clock, uiVars, deleted>>

call_delete_book ==
    /\ \E book_id \in Ids :
          /\ books' = delete_book(books, book_id)
          /\ deleted' = deleted \cup {<<book_id, seq>>}
          /\ last' = Call("db.delete_book", book_id, None)
    /\ UNCHANGED <<users, seq, clock, uiVars>>

NextStore ==
    \/ call_add_book
    \/ call_update_book
    \/ call_delete_book

SpecStore == Init /\ [][NextStore]_vars

(***************************************************************************)
(* Properties                                                              *)
(***************************************************************************)
Range(s) == {s[i] : i \in 1..Len(s)}

RECURSIVE SeqSum(_, _)
SeqSum(rows, col) ==
    IF rows = <<>> THEN 0 ELSE Head(rows)[col] + SeqSum(Tail(rows), col)

\* C1: after any sequence of Add, Update and Delete from the form, every stored
\* book has 0 <= available <= copies.
C1_AvailableWithinCopies ==
    \A b \in books : 0 <= b.available /\ b.available <= b.copies

\* an Update whose Available text exceeded Copies was stored clamped
C1_Witness ==
    /\ last.op = "update_selected"
    /\ last.outcome = "Updated"
    /\ form_vars.Available = <<"3">>
    /\ \E b \in books : b.id = selected_id[1] /\ b.copies = 2 /\ b.available = 2

\* C2: summary() agrees with the rows of fetch_books(""): total is their number,
\* available and copies are the sums of those columns, issued is the number of
\* rows whose available is 0.
C2_SummaryAgrees ==
    LET rows == fetch_books(books, <<>>)
        s == summary(books)
    IN  /\ s.total = Len(rows)
        /\ s.available = SeqSum(rows, "available")
        /\ s.copies = SeqSum(rows, "copies")
        /\ s.issued = Cardinality({i \in 1..Len(rows) : rows[i].available = 0})

C2_Witness ==
    /\ Cardinality(books) = 2
    /\ summary(books) = [total |-> 2, available |-> 2, copies |-> 4, issued |-> 1]

\* the books of which the term, without regard to case, is a substring of the
\* title, the author or the category
SubstringHits(bks, term) ==
    {b \in bks :
        \/ Contains(lower(term), lower(b.title))
        \/ Contains(lower(term), lower(b.author))
        \/ (b.category # None /\ Contains(lower(term), lower(b.category[1])))}

\* C3: for every search term, fetch_books(term) returns exactly the books of
\* which the term, compared case-insensitively, is a substring of the title,
\* the author or the category; the empty term returns all rows.
C3_SubstringSearch ==
    \A term \in SearchTerms : Range(fetch_books(books, term)) = SubstringHits(books, term)

SameFields(row, payload) ==
    /\ row.title = payload.title
    /\ row.author = payload.author
    /\ row.category = payload.category
    /\ row.year = payload.year
    /\ row.copies = payload.copies
    /\ row.available = payload.available

\* C4: add_book(payload) followed by fetch_books("") returns a row whose title,
\* author, category, year, copies and available equal the payload's, and every
\* row present before the add is still returned unchanged.
C4_AddThenFetch ==
    [][last'.op = "db.add_book" =>
          /\ \E r \in Range(fetch_books(books', <<>>)) : SameFields(r, last'.payload)
          /\ Range(fetch_books(books, <<>>)) \subseteq Range(fetch_books(books', <<>>))]_vars

\* a row was added to a table that already held a different one
C4_Witness ==
    /\ last.op = "db.add_book"
    /\ Cardinality(books) = 2
    /\ \E b \in books : ~SameFields(b, last.payload)

\* C5 as claimed: whatever id was passed to delete_book, no later state of the
\* table holds a row with that id.
C5_DeletedNeverReturns ==
    \A d \in deleted : ~\E b \in books : b.id = d[1]

\* C5, amended: right after delete_book(id) no row has that id and the rows
\* with other ids are as before; and an id that had been issued when it was
\* deleted (id <= the highest id ever assigned) is never held by a row again.
C5_IssuedDeletedNeverReturns ==
    /\ [](last.op = "db.delete_book" =>
             ~\E r \in Range(fetch_books(books, <<>>)) : r.id = last.id)
    /\ [](\A d \in deleted : d[1] <= d[2] => ~\E b \in books : b.id = d[1])
    /\ [][last'.op = "db.delete_book" =>
             {b \in books' : b.id # last'.id} = {b \in books : b.id # last'.id}]_vars

\* an issued id was deleted and a row was inserted afterwards
C5_Witness ==
    /\ \E d \in deleted : d[1] <= d[2] /\ seq > d[2]
    /\ books # {}
    /\ last.op = "db.add_book"

\* C6: update_book(id, payload) overwrites the six mutable fields of exactly
\* the row with that id, keeps its id and created_at and every other row; with
\* no such row the table is unchanged.
C6_UpdateFrame ==
    [][last'.op = "db.update_book" =>
          /\ {b.id : b \in books'} = {b.id : b \in books}
          /\ Cardinality(books') = Cardinality(books)
          /\ \A b \in books :
                IF b.id = last'.id
                THEN \E n \in books' :
                        /\ n.id = b.id
                        /\ n.created_at = b.created_at
                        /\ SameFields(n, last'.payload)
                ELSE b \in books'
          /\ ((~\E b \in books : b.id = last'.id) => books' = books)]_vars

\* one of two rows was overwritten
C6_Witness ==
    /\ last.op = "db.update_book"
    /\ Cardinality(books) = 2
    /\ \E b \in books : b.id = last.id /\ SameFields(b, last.payload)
    /\ \E b \in books : b.id # last.id /\ ~SameFields(b, last.payload)

\* the credentials in the login form verify: trimmed username and password are
\* non-empty, the user exists and its stored hash is the digest of the password
CredentialsVerify ==
    /\ strip(username_var) # <<>>
    /\ password_var # <<>>
    /\ strip(username_var) \in DOMAIN users
    /\ users[strip(username_var)] = hash_password(password_var)

\* C7: the presentation starts LoggedOut; it becomes LoggedIn only by
\* handle_login with credentials that verify; a failed attempt leaves it
\* LoggedOut; once LoggedIn it stays LoggedIn; and while LoggedOut no step
\* changes the books table.
C7_LoginGate ==
    /\ (LoggedOut /\ ~Dashboard)
    /\ [][/\ (LoggedOut /\ LoggedIn') =>
                (last'.op = "handle_login" /\ CredentialsVerify /\ Dashboard')
          /\ (LoggedOut /\ last'.op = "handle_login" /\ ~CredentialsVerify) =>
                (LoggedOut' /\ ~Dashboard')
          /\ LoggedIn => LoggedIn'
          /\ LoggedOut => (books' = books /\ seq' = seq)]_vars

\* logged in by handle_login, and a book has reached the store since
C7_Witness ==
    /\ LoggedIn
    /\ Dashboard
    /\ CredentialsVerify
    /\ books # {}

\* a form text that int() rejects
NotInteger(text) == strip(text) # <<>> /\ ~IsIntText(text)

StoreUnchanged == books' = books /\ seq' = seq

\* C8: a failing Add, Update or Delete leaves the books table as it was: Add or
\* Update with a title or author that is empty after trimming, or with a year,
\* copies or available text that is not an integer; Update or Delete with no
\* selected_id; Delete whose confirmation is declined.
C8_FailedActionKeepsStore ==
    [][/\ (/\ last'.op \in {"add_book", "update_selected"}
           /\ (strip(form_vars.Title) = <<>> \/ strip(form_vars.Author) = <<>>))
             => StoreUnchanged
       /\ (/\ last'.op \in {"add_book", "update_selected"}
           /\ \/ NotInteger(form_vars.Year)
              \/ NotInteger(form_vars.Copies)
              \/ NotInteger(form_vars.Available))
             => StoreUnchanged
       /\ (last'.op \in {"update_selected", "delete_selected"} /\ selected_id = None)
             => StoreUnchanged
       /\ (last'.op = "delete_selected" /\ last'.outcome = "Declined")
             => StoreUnchanged]_vars

\* an Update of a selected row was refused for a non-numeric field
C8_Witness ==
    /\ last.op = "update_selected"
    /\ last.outcome = "Invalid number"
    /\ selected_id # None
    /\ books # {}

\* C9: in LoggedIn, every table on the screen shows the rows of
\* fetch_books(trimmed search term) and every statistics panel shows summary().
C9_TablesInSync ==
    Dashboard =>
        \A d \in 1..Len(trees) :
            /\ Range(trees[d]) = Range(refreshed(books, search_var))
            /\ stats[d] = StatLabels(summary(books))

\* the table and statistics panel built last, the ones self.tree and
\* self.stat_* refer to, do show fetch_books(trimmed search term) and summary()
CurrentTableInSync ==
    Dashboard =>
        /\ Range(trees[Len(trees)]) = Range(refreshed(books, search_var))
        /\ stats[Len(stats)] = StatLabels(summary(books))

\* a column sort keeps the rows of the table and leaves the store alone
SortOnlyReorders ==
    [][last'.op = "sort_by_column" =>
          /\ Range(trees'[Len(trees')]) = Range(trees[Len(trees)])
          /\ Len(trees'[Len(trees')]) = Len(trees[Len(trees)])
          /\ StoreUnchanged]_vars

\* C10: at most one dashboard is ever built: the login transition runs at most
\* once per session.
C10_SingleDashboard == Len(trees) <= 1

====
